---- MODULE Spec2Model ----
(***************************************************************************)
(* Unified Product Lifecycle & Service Management API (src/main.py,        *)
(* src/schemas.py): the request handlers over the document store, the      *)
(* schema validation in front of them, the derived warranty end date and   *)
(* the connectivity check.                                                 *)
(*                                                                         *)
(* Values that Python leaves dynamically typed are tagged records of one   *)
(* shape per field: t is the runtime type ("absent": the key is not there, *)
(* "none": None/null), n an integer payload, c a string as its sequence of *)
(* characters.  A date is its proleptic Gregorian ordinal, as              *)
(* datetime.date keeps it (date(1,1,1) has ordinal 1).                     *)
(***************************************************************************)
EXTENDS Integers, Sequences, FiniteSets, TLC

VARIABLES
    db,             \* the store handle imported from database (None, or a handle)
    envUrl,         \* os.environ's DATABASE_URL
    envName,        \* os.environ's DATABASE_NAME
    product,        \* collection "product": documents in store order
    servicerequest, \* collection "servicerequest"
    servicecenter,  \* collection "servicecenter" (no endpoint writes it)
    nextOid,        \* the next identifier the store generates
    issued,         \* the (id, user_id) pairs add_product has answered with
    resp,           \* the last request with its response
    args,           \* compute_warranty_end called on its own: the arguments
    result          \* ... and what the call gave

vars == <<db, envUrl, envName, product, servicerequest, servicecenter,
          nextOid, issued, resp, args, result>>

storeVars == <<product, servicerequest, servicecenter, nextOid, issued>>
envVars == <<db, envUrl, envName>>
pureVars == <<args, result>>

(***************************************************************************)
(* datetime.date arithmetic, as CPython's datetime module computes it.     *)
(***************************************************************************)
Min(a, b) == IF a <= b THEN a ELSE b

IsLeap(y) == y % 4 = 0 /\ (y % 100 # 0 \/ y % 400 = 0)

DaysBeforeYear(y) ==
    LET p == y - 1 IN p * 365 + (p \div 4) - (p \div 100) + (p \div 400)

DaysInMonth(y, m) ==
    IF m = 2 THEN (IF IsLeap(y) THEN 29 ELSE 28)
    ELSE IF m \in {4, 6, 9, 11} THEN 30 ELSE 31

\* _DAYS_BEFORE_MONTH, and the days of year y before month m
DaysBeforeMonthTable == <<0, 31, 59, 90, 120, 151, 181, 212, 243, 273, 304, 334>>

DaysBeforeMonth(y, m) ==
    DaysBeforeMonthTable[m] + (IF m > 2 /\ IsLeap(y) THEN 1 ELSE 0)

\* date(y, m, d).toordinal()
Ymd2Ord(y, m, d) == DaysBeforeYear(y) + DaysBeforeMonth(y, m) + d

\* date.min and date.max
MinOrdinal == Ymd2Ord(1, 1, 1)
MaxOrdinal == Ymd2Ord(9999, 12, 31)

\* date.fromordinal(n) as <<year, month, day>>
Ord2Ymd(n) ==
    LET di400 == DaysBeforeYear(401)
        di100 == DaysBeforeYear(101)
        di4   == DaysBeforeYear(5)
        n0    == n - 1
        n400  == n0 \div di400
        r400  == n0 % di400
        n100  == r400 \div di100
        r100  == r400 % di100
        n4    == r100 \div di4
        r4    == r100 % di4
        n1    == r4 \div 365
        r1    == r4 % 365
        year  == n400 * 400 + 1 + n100 * 100 + n4 * 4 + n1
    IN  IF n1 = 4 \/ n100 = 4 THEN <<year - 1, 12, 31>>
        ELSE LET guess == (r1 + 50) \div 32
                 m == IF DaysBeforeMonth(year, guess) > r1 THEN guess - 1
                      ELSE guess
             IN  <<year, m, r1 - DaysBeforeMonth(year, m) + 1>>

(***************************************************************************)
(* Tagged values.                                                          *)
(***************************************************************************)
NoneV == [t |-> "none", n |-> 0, c |-> <<>>]
AbsentV == [t |-> "absent", n |-> 0, c |-> <<>>]
DateV(o) == [t |-> "date", n |-> o, c |-> <<>>]
DateTimeV(o) == [t |-> "datetime", n |-> o, c |-> <<>>]
IntV(i) == [t |-> "int", n |-> i, c |-> <<>>]
StrV(s) == [t |-> "str", n |-> 0, c |-> s]
Raised(e) == [t |-> e, n |-> 0, c |-> <<>>]

\* No call of compute_warranty_end on its own yet.
IdleCall == [purchase_date |-> NoneV, months |-> NoneV]
Pending == [t |-> "pending", n |-> 0, c |-> <<>>]

IsRaised(v) == v.t \in {"OverflowError", "TypeError", "ValueError"}

\* Python's truth value of a tagged value
Truthy(v) ==
    CASE v.t \in {"none", "absent"} -> FALSE
      [] v.t = "int" -> v.n # 0
      [] v.t = "str" -> v.c # <<>>
      [] OTHER -> TRUE

\* purchase_date + timedelta(days=k): a date past date.max raises OverflowError
\* (so does a timedelta past 999999999 days), a value that is no date TypeError.
DatePlusDays(v, k) ==
    IF v.t \in {"date", "datetime"}
    THEN IF v.n + k > MaxOrdinal \/ v.n + k < MinOrdinal
         THEN Raised("OverflowError")
         ELSE [v EXCEPT !.n = v.n + k]
    ELSE Raised("TypeError")

compute_warranty_end(purchase_date, months) ==
    IF ~Truthy(purchase_date) \/ ~Truthy(months) \/ months.n <= 0
    THEN NoneV
    ELSE DatePlusDays(purchase_date, 30 * months.n)

(***************************************************************************)
(* Strings that the code parses or formats, as sequences of characters.    *)
(***************************************************************************)
Digits == <<"0", "1", "2", "3", "4", "5", "6", "7", "8", "9">>

IsDigit(ch) == \E k \in 1..10 : Digits[k] = ch
DigitVal(ch) == (CHOOSE k \in 1..10 : Digits[k] = ch) - 1

\* str(n) of a natural number
RECURSIVE NatStr(_)
NatStr(n) == IF n < 10 THEN <<Digits[n + 1]>>
             ELSE Append(NatStr(n \div 10), Digits[(n % 10) + 1])

\* date.isoformat(): "YYYY-MM-DD"
IsoFormat(o) ==
    LET ymd == Ord2Ymd(o)
        y == ymd[1]
        m == ymd[2]
        d == ymd[3]
    IN  << Digits[(y \div 1000) + 1], Digits[((y \div 100) % 10) + 1],
           Digits[((y \div 10) % 10) + 1], Digits[(y % 10) + 1], "-",
           Digits[(m \div 10) + 1], Digits[(m % 10) + 1], "-",
           Digits[(d \div 10) + 1], Digits[(d % 10) + 1] >>

\* date.fromisoformat(s) on the extended format "YYYY-MM-DD"; ValueError on any
\* other string, and on a year, month or day out of range.
FromIsoFormat(s) ==
    IF /\ Len(s) = 10
       /\ s[5] = "-" /\ s[8] = "-"
       /\ \A i \in {1, 2, 3, 4, 6, 7, 9, 10} : IsDigit(s[i])
    THEN LET y == DigitVal(s[1]) * 1000 + DigitVal(s[2]) * 100
                  + DigitVal(s[3]) * 10 + DigitVal(s[4])
             m == DigitVal(s[6]) * 10 + DigitVal(s[7])
             d == DigitVal(s[9]) * 10 + DigitVal(s[10])
         IN  IF y >= 1 /\ m \in 1..12 /\ d >= 1 /\ d <= DaysInMonth(y, m)
             THEN DateV(Ymd2Ord(y, m, d))
             ELSE Raised("ValueError")
    ELSE Raised("ValueError")

(***************************************************************************)
(* Request payloads and query parameters.  A string-typed field of a JSON  *)
(* body is [t, s]: "absent" (the key is missing), "none" (null), "str", or *)
(* "int" (a JSON number where a string is declared).                       *)
(***************************************************************************)
S(s) == [t |-> "str", s |-> s]
SAbsent == [t |-> "absent", s |-> ""]
SNone == [t |-> "none", s |-> ""]
SInt == [t |-> "int", s |-> ""]

\* pydantic: a field declared `str`
ReqStrOk(v) == v.t = "str"
\* pydantic: a field declared Optional[str] = None
OptStrOk(v) == v.t \in {"absent", "none", "str"}
OptStr(v) == IF v.t = "str" THEN v ELSE SNone
\* pydantic: a field declared Optional[date] = None, given a JSON string or null
OptDateOk(v) ==
    \/ v.t \in {"absent", "none"}
    \/ v.t = "str" /\ ~IsRaised(FromIsoFormat(v.c))
OptDate(v) == IF v.t = "str" THEN FromIsoFormat(v.c) ELSE NoneV
\* pydantic: a field declared Optional[int] = <default>
OptIntOk(v) == v.t \in {"absent", "none", "int"}
OptInt(v, default) == IF v.t = "absent" THEN default ELSE v

\* The default of warranty_months, and its declared range (schemas.Product).
WarrantyDefault == 12
WarrantyMin == 0
WarrantyMax == 120

\* ProductIn keeping the undeclared fields of the body (extra = "allow").
MutProductInKeepExtra(payload) ==
    [ok |-> /\ ReqStrOk(payload.user_id) /\ ReqStrOk(payload.brand)
            /\ ReqStrOk(payload.model) /\ ReqStrOk(payload.serial_number)
            /\ OptStrOk(payload.category) /\ OptDateOk(payload.purchase_date)
            /\ OptIntOk(payload.warranty_months) /\ OptStrOk(payload.invoice_url),
     m |-> [user_id |-> payload.user_id.s,
            brand |-> payload.brand.s,
            model |-> payload.model.s,
            serial_number |-> payload.serial_number.s,
            category |-> OptStr(payload.category),
            purchase_date |-> OptDate(payload.purchase_date),
            warranty_months |-> OptInt(payload.warranty_months, IntV(WarrantyDefault)),
            invoice_url |-> OptStr(payload.invoice_url),
            extra |-> payload.extra]]

\* ProductIn as the request body: [ok, m]; m is the validated model, which
\* keeps the declared fields only (pydantic ignores the others).
ProductIn(payload) ==
    [ok |-> /\ ReqStrOk(payload.user_id) /\ ReqStrOk(payload.brand)
            /\ ReqStrOk(payload.model) /\ ReqStrOk(payload.serial_number)
            /\ OptStrOk(payload.category) /\ OptDateOk(payload.purchase_date)
            /\ OptIntOk(payload.warranty_months) /\ OptStrOk(payload.invoice_url),
     m |-> [user_id |-> payload.user_id.s,
            brand |-> payload.brand.s,
            model |-> payload.model.s,
            serial_number |-> payload.serial_number.s,
            category |-> OptStr(payload.category),
            purchase_date |-> OptDate(payload.purchase_date),
            warranty_months |-> OptInt(payload.warranty_months, IntV(WarrantyDefault)),
            invoice_url |-> OptStr(payload.invoice_url),
            extra |-> {}]]

\* schemas.Product without the range on warranty_months.
MutProductSchemaNoRange(m) == [ok |-> TRUE, m |-> m]

\* schemas.Product(**payload.model_dump()): the same fields once more, with
\* warranty_months held to ge=0, le=120 (None passes).  Not ok: ValidationError.
ProductSchema(m) ==
    [ok |-> \/ m.warranty_months.t # "int"
            \/ /\ m.warranty_months.n >= WarrantyMin
               /\ m.warranty_months.n <= WarrantyMax,
     m |-> m]

\* Neither status nor assigned_center_id is in the dump.
NotGiven == [status |-> SAbsent, assigned_center_id |-> SAbsent]

OptListOk(v) == v.t \in {"absent", "none", "list"}
OptList(v) == IF v.t = "list" THEN v ELSE [t |-> "none", l |-> <<>>]

\* ServiceRequestIn declaring status and assigned_center_id, as
\* ServiceRequestOut does.
MutServiceRequestInKeepGiven(payload) ==
    [ok |-> /\ ReqStrOk(payload.user_id) /\ ReqStrOk(payload.product_id)
            /\ ReqStrOk(payload.issue_description)
            /\ OptDateOk(payload.preferred_date) /\ OptStrOk(payload.city)
            /\ OptListOk(payload.media_urls),
     m |-> [user_id |-> payload.user_id.s,
            product_id |-> payload.product_id.s,
            issue_description |-> payload.issue_description.s,
            preferred_date |-> OptDate(payload.preferred_date),
            city |-> OptStr(payload.city),
            media_urls |-> OptList(payload.media_urls),
            given |-> [status |-> payload.status,
                       assigned_center_id |-> payload.assigned_center_id]]]

\* ServiceRequestIn as the request body: status and assigned_center_id are not
\* declared on it, so a client's values for them are dropped; `given` is what
\* model_dump() carries of the two.
ServiceRequestIn(payload) ==
    [ok |-> /\ ReqStrOk(payload.user_id) /\ ReqStrOk(payload.product_id)
            /\ ReqStrOk(payload.issue_description)
            /\ OptDateOk(payload.preferred_date) /\ OptStrOk(payload.city)
            /\ OptListOk(payload.media_urls),
     m |-> [user_id |-> payload.user_id.s,
            product_id |-> payload.product_id.s,
            issue_description |-> payload.issue_description.s,
            preferred_date |-> OptDate(payload.preferred_date),
            city |-> OptStr(payload.city),
            media_urls |-> OptList(payload.media_urls),
            given |-> NotGiven]]

\* schemas.ServiceRequest(**payload.model_dump()): status defaults to
\* "pending" and assigned_center_id to None when the dump does not carry them.
ServiceRequest(m) ==
    [ok |-> /\ m.given.status.t \in {"absent", "str"}
            /\ OptStrOk(m.given.assigned_center_id),
     m |-> [user_id |-> m.user_id,
            product_id |-> m.product_id,
            issue_description |-> m.issue_description,
            preferred_date |-> m.preferred_date,
            city |-> m.city,
            media_urls |-> m.media_urls,
            status |-> IF m.given.status.t = "str" THEN m.given.status.s
                       ELSE "pending",
            assigned_center_id |-> OptStr(m.given.assigned_center_id)]]

(***************************************************************************)
(* The document store (module database: db, create_document,               *)
(* get_documents).                                                         *)
(***************************************************************************)
\* The page size both listings pass to get_documents.
Limit == 100

\* How the store keeps a date it is handed: as it is, as a date-time at
\* midnight, or as its ISO-8601 string.
DateForms == {"date", "datetime", "str"}

StoreDate(v) ==
    IF v.t # "date" THEN v
    ELSE CASE db.dates = "datetime" -> DateTimeV(v.n)
           [] db.dates = "str" -> StrV(IsoFormat(v.n))
           [] OTHER -> v

\* The document create_document inserts for a validated Product ...
ProductDoc(oid, m) ==
    [_id |-> oid,
     user_id |-> m.user_id,
     brand |-> m.brand,
     model |-> m.model,
     serial_number |-> m.serial_number,
     category |-> m.category,
     purchase_date |-> StoreDate(m.purchase_date),
     warranty_months |-> m.warranty_months,
     invoice_url |-> m.invoice_url,
     extra |-> m.extra]

\* ... and for a validated ServiceRequest.
ServiceRequestDoc(oid, m) ==
    [_id |-> oid,
     user_id |-> m.user_id,
     product_id |-> m.product_id,
     issue_description |-> m.issue_description,
     preferred_date |-> StoreDate(m.preferred_date),
     city |-> m.city,
     media_urls |-> m.media_urls,
     status |-> m.status,
     assigned_center_id |-> m.assigned_center_id]

\* A filter is a set of <<field, operator, operand>>: "eq" is equality with the
\* field, "$in" holds of a sequence-valued field when one of its elements is in
\* the operand.
Matches(d, filt) ==
    \A cnd \in filt :
        IF cnd[2] = "eq" THEN d[cnd[1]] = cnd[3]
        ELSE \E i \in DOMAIN d[cnd[1]] :
                 \E j \in DOMAIN cnd[3] : d[cnd[1]][i] = cnd[3][j]

\* get_documents(collection_name, filt, limit): the first `limit` matching
\* documents in store order, as objects of the caller's own.
get_documents(coll, filt, limit) ==
    LET found == SelectSeq(coll, LAMBDA d : Matches(d, filt))
    IN  SubSeq(found, 1, Min(limit, Len(found)))

(***************************************************************************)
(* The handlers.                                                           *)
(***************************************************************************)
Response(op, req, status, body, calls) ==
    [op |-> op, req |-> req, status |-> status, body |-> body,
     store_calls |-> calls]

NoBody == <<>>

\* No request is being served.
IdleResponse == Response("none", NoBody, 0, NoBody, 0)

\* The response goes out to the client; the next request can be served.
SendResponse ==
    /\ resp # IdleResponse
    /\ resp' = IdleResponse
    /\ UNCHANGED <<storeVars, envVars, pureVars>>

\* A query parameter is [t, s] with t "absent" or "str"; `if user_id:` holds of
\* a non-empty string.
QTruthy(q) == q.t = "str" /\ q.s # ""

\* list_products' filter without the brand condition.
MutProductFilterNoBrand(user_id, brand) ==
    IF QTruthy(user_id) THEN {<<"user_id", "eq", user_id.s>>} ELSE {}

\* The filters the listings build (lines 121-125, 157-161).
ProductFilter(user_id, brand) ==
    (IF QTruthy(user_id) THEN {<<"user_id", "eq", user_id.s>>} ELSE {})
    \cup (IF QTruthy(brand) THEN {<<"brand", "eq", brand.s>>} ELSE {})

CenterFilter(city, brand) ==
    (IF QTruthy(city) THEN {<<"city", "eq", city.s>>} ELSE {})
    \cup (IF QTruthy(brand) THEN {<<"brands", "$in", <<brand.s>>>>} ELSE {})

\* d.get(key): None for a key that is not there
Get(v) == IF v.t = "absent" THEN NoneV ELSE v

\* The date list_products makes of a stored purchase_date (lines 133-141).
PurchaseDateOf(pd) ==
    IF pd.t = "str"
    THEN LET parsed == FromIsoFormat(pd.c)
         IN  IF IsRaised(parsed) THEN NoneV ELSE parsed
    ELSE IF pd.t = "datetime" THEN DateV(pd.n)
    ELSE pd

\* `end.isoformat() if end else None`; an exception of compute_warranty_end
\* passes through.
WarrantyEndField(end) ==
    IF IsRaised(end) THEN end
    ELSE IF Truthy(end) THEN StrV(IsoFormat(end.n)) ELSE NoneV

\* One pass of list_products' loop: the record answered for document d.
EnrichProduct(d) ==
    [id |-> NatStr(d._id),
     user_id |-> d.user_id,
     brand |-> d.brand,
     model |-> d.model,
     serial_number |-> d.serial_number,
     category |-> d.category,
     purchase_date |-> d.purchase_date,
     warranty_months |-> d.warranty_months,
     invoice_url |-> d.invoice_url,
     extra |-> d.extra \ {"id", "warranty_end"},
     warranty_end |-> WarrantyEndField(
         compute_warranty_end(PurchaseDateOf(Get(d.purchase_date)),
                              Get(d.warranty_months)))]

EnrichCenter(c) ==
    [id |-> NatStr(c._id),
     name |-> c.name,
     brands |-> c.brands,
     address |-> c.address,
     city |-> c.city,
     phone |-> c.phone,
     rating |-> c.rating]

\* Requests that insert are taken while fewer than MaxInserts documents have
\* been inserted since the start.
MaxInserts == 2

\* The service centers the store holds; no endpoint writes them.
Centers ==
    << [_id |-> Limit + 1, name |-> "FixIt", brands |-> <<"LG", "Samsung">>,
        address |-> "1 MG Road", city |-> "Pune", phone |-> SNone, rating |-> 45],
       [_id |-> Limit + 2, name |-> "CarePoint", brands |-> <<"Sony">>,
        address |-> "2 Hill St", city |-> "Pune", phone |-> S("020-1"), rating |-> 40],
       [_id |-> Limit + 3, name |-> "LG Direct", brands |-> <<"LG">>,
        address |-> "3 Lake Rd", city |-> "Delhi", phone |-> SNone, rating |-> 50] >>

FirstOid == Limit + Len(Centers) + 1
Inserted == nextOid - FirstOid

DbAvailable == db.t # "none"

\* POST /api/products
add_product(payload) ==
    LET pin == ProductIn(payload)
        sch == ProductSchema(pin.m)
        doc == ProductDoc(nextOid, sch.m)
        end == WarrantyEndField(
                   compute_warranty_end(pin.m.purchase_date, pin.m.warranty_months))
    IN  /\ resp = IdleResponse
        /\ (pin.ok /\ sch.ok /\ DbAvailable) => Inserted < MaxInserts
        /\ IF ~pin.ok
           THEN \* the framework rejects the body: RequestValidationError
                /\ resp' = Response("add_product", payload, 422, NoBody, 0)
                /\ UNCHANGED storeVars
           ELSE IF ~sch.ok
           THEN \* ValidationError raised in the handler, before create_document
                /\ resp' = Response("add_product", payload, 500, NoBody, 0)
                /\ UNCHANGED storeVars
           ELSE IF ~DbAvailable
           THEN \* create_document raises: no store
                /\ resp' = Response("add_product", payload, 500, NoBody, 1)
                /\ UNCHANGED storeVars
           ELSE /\ product' = Append(product, doc)
                /\ nextOid' = nextOid + 1
                /\ UNCHANGED <<servicerequest, servicecenter>>
                /\ IF IsRaised(end)
                   THEN /\ resp' = Response("add_product", payload, 500, NoBody, 1)
                        /\ UNCHANGED issued
                   ELSE /\ resp' = Response("add_product", payload, 200,
                                       [id |-> NatStr(nextOid),
                                        warranty_end |-> end,
                                        message |-> "Product added successfully"], 1)
                        /\ issued' = issued \cup {<<NatStr(nextOid), pin.m.user_id>>}
        /\ UNCHANGED <<envVars, pureVars>>

\* GET /api/products
list_products(user_id, brand) ==
    LET req == [user_id |-> user_id, brand |-> brand]
        docs == get_documents(product, ProductFilter(user_id, brand), Limit)
        rows == [i \in 1..Len(docs) |-> EnrichProduct(docs[i])]
    IN  /\ resp = IdleResponse
        /\ IF ~DbAvailable
           THEN resp' = Response("list_products", req, 500, NoBody, 1)
           ELSE IF \E i \in 1..Len(rows) : IsRaised(rows[i].warranty_end)
           THEN resp' = Response("list_products", req, 500, NoBody, 1)
           ELSE resp' = Response("list_products", req, 200, rows, 1)
        /\ UNCHANGED <<storeVars, envVars, pureVars>>

\* POST /api/service-requests
create_service_request(payload) ==
    LET sin == ServiceRequestIn(payload)
        sr == ServiceRequest(sin.m)
        doc == ServiceRequestDoc(nextOid, sr.m)
    IN  /\ resp = IdleResponse
        /\ (sin.ok /\ sr.ok /\ DbAvailable) => Inserted < MaxInserts
        /\ IF ~sin.ok
           THEN /\ resp' = Response("create_service_request", payload, 422, NoBody, 0)
                /\ UNCHANGED storeVars
           ELSE IF ~sr.ok
           THEN /\ resp' = Response("create_service_request", payload, 500, NoBody, 0)
                /\ UNCHANGED storeVars
           ELSE IF ~DbAvailable
           THEN /\ resp' = Response("create_service_request", payload, 500, NoBody, 1)
                /\ UNCHANGED storeVars
           ELSE /\ servicerequest' = Append(servicerequest, doc)
                /\ nextOid' = nextOid + 1
                /\ resp' = Response("create_service_request", payload, 200,
                               [id |-> NatStr(nextOid),
                                message |-> "Service request created"], 1)
                /\ UNCHANGED <<product, servicecenter, issued>>
        /\ UNCHANGED <<envVars, pureVars>>

\* GET /api/service-centers
list_service_centers(city, brand) ==
    LET req == [city |-> city, brand |-> brand]
        centers == get_documents(servicecenter, CenterFilter(city, brand), Limit)
        rows == [i \in 1..Len(centers) |-> EnrichCenter(centers[i])]
    IN  /\ resp = IdleResponse
        /\ IF ~DbAvailable
           THEN resp' = Response("list_service_centers", req, 500, NoBody, 1)
           ELSE resp' = Response("list_service_centers", req, 200, rows, 1)
        /\ UNCHANGED <<storeVars, envVars, pureVars>>

\* str(e)[:80] and list_collection_names()[:10]
TruncLen == 80
MaxCollections == 10

Take(seq, k) == SubSeq(seq, 1, Min(k, Len(seq)))

\* os.getenv(name) is truthy: the variable is there and not empty
EnvTruthy(v) == v.t = "str" /\ v.s # ""

\* test_database's answer with the error message cut one character later.
MutHealthResponseCut81 ==
    IF db.t = "none"
    THEN [backend |-> "Running",
          database |-> [label |-> "Not Available", msg |-> <<>>],
          database_url |-> "Not Set",
          database_name |-> "Not Set",
          connection_status |-> "Not Connected",
          collections |-> <<>>]
    ELSE [backend |-> "Running",
          database |-> IF db.t = "error"
                       THEN [label |-> "Connected but Error",
                             msg |-> Take(db.err, TruncLen + 1)]
                       ELSE [label |-> "Connected & Working", msg |-> <<>>],
          database_url |-> IF EnvTruthy(envUrl) THEN "Set" ELSE "Not Set",
          database_name |-> IF EnvTruthy(envName) THEN "Set" ELSE "Not Set",
          connection_status |-> "Connected",
          collections |-> IF db.t = "error" THEN <<>>
                          ELSE Take(db.colls, MaxCollections)]

\* The dictionary test_database answers with (lines 30-51).
HealthResponse ==
    IF db.t = "none"
    THEN [backend |-> "Running",
          database |-> [label |-> "Not Available", msg |-> <<>>],
          database_url |-> "Not Set",
          database_name |-> "Not Set",
          connection_status |-> "Not Connected",
          collections |-> <<>>]
    ELSE [backend |-> "Running",
          database |-> IF db.t = "error"
                       THEN [label |-> "Connected but Error",
                             msg |-> Take(db.err, TruncLen)]
                       ELSE [label |-> "Connected & Working", msg |-> <<>>],
          database_url |-> IF EnvTruthy(envUrl) THEN "Set" ELSE "Not Set",
          database_name |-> IF EnvTruthy(envName) THEN "Set" ELSE "Not Set",
          connection_status |-> "Connected",
          collections |-> IF db.t = "error" THEN <<>>
                          ELSE Take(db.colls, MaxCollections)]

\* GET /test
test_database ==
    /\ resp = IdleResponse
    /\ resp' = Response("test_database", NoBody, 200, HealthResponse,
                        IF DbAvailable THEN 1 ELSE 0)
    /\ UNCHANGED <<storeVars, envVars, pureVars>>

(***************************************************************************)
(* The requests tried.                                                     *)
(***************************************************************************)
Iso20240101 == IsoFormat(Ymd2Ord(2024, 1, 1))
NotADate == <<"n", "o", "t", "-", "a", "-", "d", "a", "t", "e">>
Feb30 == <<"2", "0", "2", "4", "-", "0", "2", "-", "3", "0">>

BaseProduct ==
    [user_id |-> S("u1"), brand |-> S("Samsung"), model |-> S("QN90"),
     serial_number |-> S("SN-1"), category |-> SAbsent,
     purchase_date |-> StrV(Iso20240101), warranty_months |-> AbsentV,
     invoice_url |-> SAbsent, extra |-> {}]

ValidProducts ==
    { BaseProduct,
      [BaseProduct EXCEPT !.user_id = S("u2"), !.brand = S("LG"),
                          !.category = S("TV"), !.purchase_date = NoneV,
                          !.warranty_months = IntV(WarrantyMax),
                          !.extra = {"id", "warranty_end"}],
      [BaseProduct EXCEPT !.user_id = S("u2"), !.warranty_months = NoneV,
                          !.invoice_url = S("https://inv/1")],
      [BaseProduct EXCEPT !.brand = S("LG"),
                          !.purchase_date = StrV(IsoFormat(MaxOrdinal)),
                          !.warranty_months = IntV(1)] }

InvalidProducts ==
    { [BaseProduct EXCEPT !.user_id = SAbsent],
      [BaseProduct EXCEPT !.brand = SAbsent],
      [BaseProduct EXCEPT !.model = SAbsent],
      [BaseProduct EXCEPT !.serial_number = SAbsent],
      [BaseProduct EXCEPT !.serial_number = SInt],
      [BaseProduct EXCEPT !.category = SInt],
      [BaseProduct EXCEPT !.purchase_date = StrV(NotADate)],
      [BaseProduct EXCEPT !.purchase_date = StrV(Feb30)],
      [BaseProduct EXCEPT !.warranty_months = StrV(<<"a", "b", "c">>)],
      [BaseProduct EXCEPT !.warranty_months = IntV(WarrantyMin - 1)],
      [BaseProduct EXCEPT !.warranty_months = IntV(WarrantyMax + 1)] }

ProductPayloads == ValidProducts \cup InvalidProducts

BaseRequest ==
    [user_id |-> S("u1"), product_id |-> S("p1"),
     issue_description |-> S("no power"), preferred_date |-> AbsentV,
     city |-> SAbsent, media_urls |-> [t |-> "absent", l |-> <<>>],
     status |-> SAbsent, assigned_center_id |-> SAbsent]

ValidRequests ==
    { BaseRequest,
      [BaseRequest EXCEPT !.user_id = S("u2"),
                          !.preferred_date = StrV(Iso20240101), !.city = S("Pune"),
                          !.media_urls = [t |-> "list", l |-> <<"https://m/1">>],
                          !.status = S("completed"),
                          !.assigned_center_id = S("c9")] }

InvalidRequests ==
    { [BaseRequest EXCEPT !.user_id = SAbsent],
      [BaseRequest EXCEPT !.product_id = SAbsent],
      [BaseRequest EXCEPT !.issue_description = SAbsent],
      [BaseRequest EXCEPT !.issue_description = SInt],
      [BaseRequest EXCEPT !.preferred_date = StrV(NotADate)],
      [BaseRequest EXCEPT !.media_urls = [t |-> "str", l |-> <<>>]] }

RequestPayloads == ValidRequests \cup InvalidRequests

UserQueries == {SAbsent, S(""), S("u1"), S("u2")}
BrandQueries == {SAbsent, S(""), S("Samsung"), S("samsung"), S("LG")}
CityQueries == {SAbsent, S(""), S("Pune")}
CenterBrandQueries == {SAbsent, S(""), S("LG"), S("L")}

(***************************************************************************)
(* What the store holds when the process starts: the product collection    *)
(* outlives the process, and other writers may have put documents there.   *)
(***************************************************************************)
StoredProduct(oid, user, brand, pd, wm) ==
    [_id |-> oid, user_id |-> user, brand |-> brand, model |-> "M1",
     serial_number |-> "SN-0", category |-> SNone, purchase_date |-> pd,
     warranty_months |-> wm, invoice_url |-> SNone, extra |-> {}]

\* n products of one user, as n earlier add_product requests leave them
Vault(n) ==
    [i \in 1..n |-> StoredProduct(i, "u1", "Samsung", NoneV, IntV(12))]

\* documents whose purchase_date is a string, a date-time, or not there
Legacy ==
    << StoredProduct(1, "u2", "LG", StrV(NotADate), IntV(12)),
       StoredProduct(2, "u2", "LG", StrV(Iso20240101), IntV(12)),
       StoredProduct(3, "u1", "Samsung", DateTimeV(Ymd2Ord(2024, 1, 1)), IntV(24)),
       StoredProduct(4, "u2", "Samsung", StrV(Feb30), AbsentV),
       StoredProduct(5, "u1", "LG", AbsentV, IntV(12)),
       StoredProduct(6, "u1", "LG", IntV(0), IntV(12)) >>

\* a document whose purchase_date is a number
LegacyNumber ==
    << StoredProduct(1, "u2", "LG", IntV(20240101), IntV(12)),
       StoredProduct(2, "u1", "Samsung", DateV(Ymd2Ord(2024, 1, 1)), IntV(12)) >>

InitialProducts == {<<>>, Vault(Limit - 1), Legacy, LegacyNumber}

Handle(form) == [t |-> "ok", dates |-> form, err |-> <<>>,
                 colls |-> <<"product", "servicecenter", "servicerequest">>]
NoHandle == [t |-> "none", dates |-> "date", err |-> <<>>, colls |-> <<>>]

EnvSet(s) == [t |-> "str", s |-> s]
EnvUnset == [t |-> "absent", s |-> ""]

Init ==
    /\ db \in {NoHandle} \cup {Handle(f) : f \in DateForms}
    /\ envUrl = EnvSet("mongodb://db:27017")
    /\ envName = EnvSet("vault")
    /\ product \in InitialProducts
    /\ servicerequest = <<>>
    /\ servicecenter = Centers
    /\ nextOid = FirstOid
    /\ issued = {}
    /\ resp = IdleResponse
    /\ args = IdleCall
    /\ result = Pending

Next ==
    \/ \E payload \in ProductPayloads : add_product(payload)
    \/ \E user_id \in UserQueries, brand \in BrandQueries :
           list_products(user_id, brand)
    \/ \E payload \in RequestPayloads : create_service_request(payload)
    \/ \E city \in CityQueries, brand \in CenterBrandQueries :
           list_service_centers(city, brand)
    \/ SendResponse

Spec == Init /\ [][Next]_vars

(***************************************************************************)
(* compute_warranty_end on its own.                                        *)
(***************************************************************************)
\* How far around an interesting date the purchase dates are drawn.
DateSpread == 2

\* The longest duration tried, in months, beside the schema's extremes.
MaxMonths == 14

PureDates ==
    {NoneV} \cup
    {DateV(Ymd2Ord(2024, 1, 1) + k) : k \in 0..DateSpread} \cup
    {DateV(MinOrdinal + k) : k \in 0..DateSpread} \cup
    {DateV(MaxOrdinal - 30 * j - k) : j \in 0..2, k \in 0..DateSpread}

PureMonths == {NoneV} \cup {IntV(i) : i \in (-2..MaxMonths) \cup {120, 121}}

\* compute_warranty_end is called once on the drawn arguments.
CallComputeWarrantyEnd ==
    /\ result = Pending
    /\ result' = compute_warranty_end(args.purchase_date, args.months)
    /\ UNCHANGED <<args, envVars, storeVars, resp>>

InitWarranty ==
    /\ args \in [purchase_date : PureDates, months : PureMonths]
    /\ result = Pending
    /\ db = NoHandle
    /\ envUrl = EnvUnset
    /\ envName = EnvUnset
    /\ product = <<>>
    /\ servicerequest = <<>>
    /\ servicecenter = <<>>
    /\ nextOid = FirstOid
    /\ issued = {}
    /\ resp = IdleResponse

NextWarranty == CallComputeWarrantyEnd

SpecWarranty == InitWarranty /\ [][NextWarranty]_vars

(***************************************************************************)
(* The connectivity check on its own, over every handle and environment.   *)
(***************************************************************************)
\* How far past the cut an error message or the collection list may run.
MaxExtra == 3

\* A message of k characters
Message(k) == [i \in 1..k |-> Digits[(i % 10) + 1]]
\* k collection names
Names(k) == [i \in 1..k |-> NatStr(i)]

ErrorHandles ==
    { [t |-> "error", dates |-> "date", err |-> Message(k), colls |-> <<>>] :
        k \in (0..MaxExtra) \cup ((TruncLen - 1)..(TruncLen + MaxExtra)) }
WorkingHandles ==
    { [t |-> "ok", dates |-> "date", err |-> <<>>, colls |-> Names(k)] :
        k \in 0..(MaxCollections + MaxExtra) }

EnvValues == {EnvUnset, EnvSet(""), EnvSet("configured")}

InitHealth ==
    /\ db \in {NoHandle} \cup ErrorHandles \cup WorkingHandles
    /\ envUrl \in EnvValues
    /\ envName \in EnvValues
    /\ product = <<>>
    /\ servicerequest = <<>>
    /\ servicecenter = <<>>
    /\ nextOid = FirstOid
    /\ issued = {}
    /\ resp = IdleResponse
    /\ args = IdleCall
    /\ result = Pending

NextHealth == test_database \/ SendResponse

SpecHealth == InitHealth /\ [][NextHealth]_vars

(***************************************************************************)
(* The claims.                                                             *)
(***************************************************************************)
Rows == 1..Len(resp.body)
RowIds == {resp.body[i].id : i \in Rows}

\* int(s) of a string of digits
RECURSIVE StrNat(_)
StrNat(s) == IF s = <<>> THEN 0
             ELSE StrNat(SubSeq(s, 1, Len(s) - 1)) * 10 + DigitVal(s[Len(s)])

\* C1: with the store available, add_product answers every valid payload with
\* a non-empty id, and every later listing filtered by that payload's user_id
\* answers a sequence that holds a record with that id.
C1_CreatedProductIsListed ==
    /\ (resp.op = "add_product" /\ DbAvailable /\ resp.req \in ValidProducts)
          => (resp.status = 200 /\ Len(resp.body.id) > 0)
    /\ (resp.op = "list_products" /\ DbAvailable /\ resp.req.brand = SAbsent)
          => \A pr \in issued :
                 resp.req.user_id = S(pr[2])
                    => (resp.status = 200 /\ pr[1] \in RowIds)

\* The second half of C1 alone fails too: a listing by user_id alone succeeds
\* and misses an id add_product answered that user with, the user's document
\* past the first Limit.
C1_ListingMissesIssuedId ==
    /\ resp.op = "list_products" /\ resp.status = 200
    /\ resp.req.brand = SAbsent
    /\ Len(resp.body) = Limit
    /\ \E pr \in issued : resp.req.user_id = S(pr[2]) /\ pr[1] \notin RowIds

\* The payloads C2 calls invalid: a required field missing, or warranty_months
\* outside 0..120.
C2Invalid(p) ==
    \/ p.user_id.t = "absent" \/ p.brand.t = "absent"
    \/ p.model.t = "absent" \/ p.serial_number.t = "absent"
    \/ p.warranty_months.t = "int"
       /\ (p.warranty_months.n < 0 \/ p.warranty_months.n > 120)

\* C2: a POST /api/products with an invalid payload calls create_document zero
\* times and leaves the product collection as it was.
C2_InvalidProductNeverReachesStore ==
    [][ (resp'.op = "add_product" /\ resp.op = "none" /\ C2Invalid(resp'.req))
           => (resp'.store_calls = 0 /\ product' = product /\ nextOid' = nextOid)
      ]_vars

C2_Witness ==
    /\ resp.op = "add_product"
    /\ resp.req.warranty_months = IntV(121)
    /\ resp.store_calls = 0
    /\ Len(product) = Limit + 1

\* A payload that violates a constraint of the entity's schema.
C3Violates ==
    IF resp.op = "add_product"
    THEN \/ \E f \in {"user_id", "brand", "model", "serial_number"} :
                resp.req[f].t # "str"
         \/ \E f \in {"category", "invoice_url"} : resp.req[f].t = "int"
         \/ resp.req.purchase_date.t = "str"
            /\ IsRaised(FromIsoFormat(resp.req.purchase_date.c))
         \/ resp.req.warranty_months.t = "str"
         \/ resp.req.warranty_months.t = "int"
            /\ (resp.req.warranty_months.n < 0 \/ resp.req.warranty_months.n > 120)
    ELSE \/ \E f \in {"user_id", "product_id", "issue_description"} :
                resp.req[f].t # "str"
         \/ resp.req.city.t = "int"
         \/ resp.req.preferred_date.t = "str"
            /\ IsRaised(FromIsoFormat(resp.req.preferred_date.c))
         \/ resp.req.media_urls.t = "str"

\* C3: a payload that violates a schema constraint is answered 4xx, never 5xx,
\* by POST /api/products and by POST /api/service-requests.
C3_SchemaViolationIsClientError ==
    (resp.op \in {"add_product", "create_service_request"} /\ C3Violates)
        => (resp.status >= 400 /\ resp.status <= 499)

\* C4: compute_warranty_end gives None exactly when purchase_date is None,
\* months is None or months <= 0, and otherwise the date 30*months days after
\* purchase_date; date(2024,1,1) with 12 months gives date(2024,12,26).
C4_WarrantyEndContract ==
    result # Pending =>
        /\ (result = NoneV) <=> \/ args.purchase_date = NoneV
                                \/ args.months = NoneV
                                \/ args.months.n <= 0
        /\ (args.purchase_date # NoneV /\ args.months # NoneV /\ args.months.n >= 1)
              => result = DateV(args.purchase_date.n + 30 * args.months.n)
        /\ (args.purchase_date = DateV(Ymd2Ord(2024, 1, 1)) /\ args.months = IntV(12))
              => result = DateV(Ymd2Ord(2024, 12, 26))

\* What every answered record must satisfy for the filters the query gave; a
\* filter counts when it is supplied and, with nonEmptyOnly, not empty.
C5Given(q, nonEmptyOnly) == q.t = "str" /\ (nonEmptyOnly => q.s # "")

C5Respected(nonEmptyOnly) ==
    /\ (resp.op = "list_products" /\ resp.status = 200)
          => \A i \in Rows :
                 /\ C5Given(resp.req.user_id, nonEmptyOnly)
                       => resp.body[i].user_id = resp.req.user_id.s
                 /\ C5Given(resp.req.brand, nonEmptyOnly)
                       => resp.body[i].brand = resp.req.brand.s
    /\ (resp.op = "list_service_centers" /\ resp.status = 200)
          => \A i \in Rows :
                 /\ C5Given(resp.req.city, nonEmptyOnly)
                       => resp.body[i].city = resp.req.city.s
                 /\ C5Given(resp.req.brand, nonEmptyOnly)
                       => \E j \in DOMAIN resp.body[i].brands :
                              resp.body[i].brands[j] = resp.req.brand.s

\* C5 as stated: every record answered by a listing satisfies every filter the
\* query supplies, whatever its value.
C5_EverySuppliedFilterHolds == C5Respected(FALSE)

\* C5 amended: every record answered by a listing satisfies every filter the
\* query supplies with a non-empty value (an empty value filters nothing).
C5_EveryNonEmptyFilterHolds == C5Respected(TRUE)

C5_Witness ==
    /\ resp.op = "list_products" /\ resp.status = 200
    /\ resp.req.brand = S("Samsung") /\ resp.req.user_id = S("u2")
    /\ Len(resp.body) > 0
    /\ \E i \in 1..Len(product) :
           product[i].brand = "LG" /\ product[i].user_id = "u2"
    /\ \E i \in 1..Len(product) :
           product[i].brand = "Samsung" /\ product[i].user_id = "u1"

\* C6: GET /test always answers 200; with both connection parameters missing
\* it reports both as not set; a store error shows only as the first 80
\* characters of its message, in the body.
C6_HealthNeverFails ==
    resp.op = "test_database" =>
        /\ resp.status = 200
        /\ (envUrl.t = "absent" /\ envName.t = "absent")
              => /\ resp.body.database_url = "Not Set"
                 /\ resp.body.database_name = "Not Set"
        /\ Len(resp.body.database.msg) <= 80
        /\ resp.body.database.msg
              = SubSeq(db.err, 1, Len(resp.body.database.msg))
        /\ (db.t = "error" /\ Len(db.err) <= 80)
              => resp.body.database.msg = db.err

C6_Witness ==
    /\ resp.op = "test_database"
    /\ db.t = "error" /\ Len(db.err) > 80
    /\ Len(resp.body.database.msg) = 80
    /\ envUrl.t = "absent" /\ envName.t = "absent"

\* C7: GET /test reports database_url as set exactly when DATABASE_URL is
\* configured and database_name as set exactly when DATABASE_NAME is, with or
\* without a store handle.
C7_EachParameterObservable ==
    resp.op = "test_database" =>
        /\ (resp.body.database_url = "Set") <=> EnvTruthy(envUrl)
        /\ (resp.body.database_name = "Set") <=> EnvTruthy(envName)

\* C8: every document in the service-request collection, all of them inserted
\* by POST /api/service-requests, has status "pending" and no assigned center.
C8_InsertedRequestIsPending ==
    \A i \in 1..Len(servicerequest) :
        /\ servicerequest[i].status = "pending"
        /\ servicerequest[i].assigned_center_id = SNone

C8_Witness ==
    /\ resp.op = "create_service_request" /\ resp.status = 200
    /\ resp.req.status = S("completed")
    /\ resp.req.assigned_center_id = S("c9")
    /\ \E i \in 1..Len(servicerequest) :
           NatStr(servicerequest[i]._id) = resp.body.id

\* A stored purchase_date that is no date: an unparseable string, or a value
\* that is neither a string, a date nor a date-time.
C9Malformed(pd) ==
    \/ pd.t = "str" /\ IsRaised(FromIsoFormat(pd.c))
    \/ pd.t \notin {"str", "date", "datetime", "none", "absent"}

\* The day a well-formed stored purchase_date stands for (0: none).
StoredDay(pd) ==
    CASE pd.t \in {"date", "datetime"} -> pd.n
      [] pd.t = "str" /\ ~IsRaised(FromIsoFormat(pd.c)) -> FromIsoFormat(pd.c).n
      [] OTHER -> 0

\* The warranty end a stored document stands for, as a day (0: none).
StoredEndDay(d) ==
    IF /\ StoredDay(d.purchase_date) > 0
       /\ d.warranty_months.t = "int" /\ d.warranty_months.n >= 1
    THEN StoredDay(d.purchase_date) + 30 * d.warranty_months.n
    ELSE 0

\* The day an answered warranty_end stands for (0: None).
AnsweredEndDay(row) ==
    IF row.warranty_end.t = "str" THEN FromIsoFormat(row.warranty_end.c).n ELSE 0

C9Matched == get_documents(product, ProductFilter(resp.req.user_id, resp.req.brand),
                           Limit)

\* C9: with the store available and every matched record's warranty end, where
\* it has one, a date, list_products answers 200 with every matched record; a
\* record whose purchase_date is malformed gets warranty_end None and the
\* others their own warranty end.
C9_MalformedDateNeverFailsListing ==
    (/\ resp.op = "list_products"
     /\ DbAvailable
     /\ \A i \in 1..Len(C9Matched) : StoredEndDay(C9Matched[i]) <= MaxOrdinal)
        => /\ resp.status = 200
           /\ Len(resp.body) = Len(C9Matched)
           /\ \A i \in Rows :
                  /\ resp.body[i].id = NatStr(C9Matched[i]._id)
                  /\ C9Malformed(C9Matched[i].purchase_date)
                        => resp.body[i].warranty_end = NoneV
                  /\ ~C9Malformed(C9Matched[i].purchase_date)
                        => AnsweredEndDay(resp.body[i]) = StoredEndDay(C9Matched[i])

\* C10: no stored product document has a warranty_end or an id field;
\* list_products answers each record with the warranty end of that record's
\* own stored purchase_date and warranty_months; and a listing leaves the
\* product collection as it was.
C10_NothingDerivedIsStored ==
    \A i \in 1..Len(product) : product[i].extra \cap {"warranty_end", "id"} = {}

C10_AnsweredEndIsTheStoredOne ==
    (resp.op = "list_products" /\ resp.status = 200)
        => \A i \in Rows :
               LET oid == StrNat(resp.body[i].id)
                   end == AnsweredEndDay(resp.body[i])
               IN  \E j \in 1..Len(product) :
                       /\ product[j]._id = oid
                       /\ end = StoredEndDay(product[j])

C10_WarrantyEndOnlyInResponses ==
    /\ [](C10_NothingDerivedIsStored /\ C10_AnsweredEndIsTheStoredOne)
    /\ [][resp'.op = "list_products" => product' = product]_vars

C10_Witness ==
    /\ resp.op = "list_products" /\ resp.status = 200
    /\ \E i \in Rows : resp.body[i].warranty_end.t = "str"
                       /\ StrNat(resp.body[i].id) >= FirstOid
    /\ \E i \in Rows : resp.body[i].warranty_end = NoneV
                       /\ StrNat(resp.body[i].id) >= FirstOid
    /\ issued # {}

====
